---- MODULE Spec2Model ----
(***************************************************************************)
(* Model of the chat front-end of strands-ts-sample: the Vercel handler    *)
(* (api/agent.ts and its streaming variant) and the SSE read loop of       *)
(* App.tsx's sendMessage.                                                  *)
(*                                                                         *)
(* Text is a sequence of Unicode code points, a byte string a sequence of  *)
(* integers 0..255: UTF-8, JSON quoting and JSON parsing are computed, so  *)
(* that a frame written by the handler is really re-read by the client.    *)
(***************************************************************************)
EXTENDS Integers, Sequences, FiniteSets, TLC

(***************************************************************************)
(* Bounds of the model.                                                    *)
(***************************************************************************)
\* longest agent event sequence of one streaming request
MaxEvents == 2
\* number of SSE frames of a body the consumer is fed directly
MaxFrames == 2
\* number of sendMessage calls that pass the guard
MaxSends == 1

(***************************************************************************)
(* Sequence helpers.                                                       *)
(***************************************************************************)
Last(s) == s[Len(s)]

RECURSIVE Flatten(_)
Flatten(ss) == IF ss = <<>> THEN <<>> ELSE Head(ss) \o Flatten(Tail(ss))

\* the concatenation of F(s[lo]), ..., F(s[hi]), by halves
RECURSIVE ConcatMap(_, _, _, _)
ConcatMap(F(_), s, lo, hi) ==
  IF lo > hi THEN <<>>
  ELSE IF lo = hi THEN F(s[lo])
  ELSE ConcatMap(F, s, lo, (lo + hi) \div 2) \o ConcatMap(F, s, (lo + hi) \div 2 + 1, hi)

\* s.startsWith(p)
StartsWith(s, p) == Len(s) >= Len(p) /\ SubSeq(s, 1, Len(p)) = p

\* s.slice(n)
Slice(s, n) == SubSeq(s, n + 1, Len(s))

(***************************************************************************)
(* String literals of the two programs, as code points.                    *)
(***************************************************************************)
\* '\n\n'
Delimiter == <<10, 10>>
\* 'data: '
DataPrefix == <<100, 97, 116, 97, 58, 32>>
\* '[DONE]'
DoneLiteral == <<91, 68, 79, 78, 69, 93>>
\* 'text'
KeyText == <<116, 101, 120, 116>>
\* 'error'
KeyError == <<101, 114, 114, 111, 114>>
\* 'エラー: '
ErrorPrefix == <<12456, 12521, 12540, 58, 32>>
\* '通信エラーが発生しました'
ConnectionError ==
  <<36890, 20449, 12456, 12521, 12540, 12364, 30330, 29983, 12375, 12414, 12375, 12383>>
\* 'ストリームエラー'
StreamErrorText == <<12473, 12488, 12522, 12540, 12512, 12456, 12521, 12540>>
\* 'Method not allowed'
MethodNotAllowedText ==
  <<77, 101, 116, 104, 111, 100, 32, 110, 111, 116, 32, 97, 108, 108, 111, 119, 101, 100>>
\* 'message is required'
MessageRequiredText ==
  <<109, 101, 115, 115, 97, 103, 101, 32, 105, 115, 32, 114, 101, 113, 117, 105, 114, 101, 100>>
\* 'Internal server error'
InternalErrorText ==
  <<73, 110, 116, 101, 114, 110, 97, 108, 32, 115, 101, 114, 118, 101, 114, 32, 101, 114,
    114, 111, 114>>

(***************************************************************************)
(* UTF-8: what res.write does to a string and what TextDecoder undoes.     *)
(***************************************************************************)
\* one code point to bytes; a lone surrogate is written as U+FFFD
UTF8EncodeChar(c) ==
  IF c < 128 THEN <<c>>
  ELSE IF c < 2048 THEN <<192 + (c \div 64), 128 + (c % 64)>>
  ELSE IF c >= 55296 /\ c <= 57343 THEN <<239, 191, 189>>
  ELSE IF c < 65536
    THEN <<224 + (c \div 4096), 128 + ((c \div 64) % 64), 128 + (c % 64)>>
  ELSE <<240 + (c \div 262144), 128 + ((c \div 4096) % 64),
         128 + ((c \div 64) % 64), 128 + (c % 64)>>

UTF8Encode(s) == ConcatMap(UTF8EncodeChar, s, 1, Len(s))

\* new TextDecoder(): nothing pending, no BOM looked for yet
NewDecoder == [cp |-> 0, seen |-> 0, needed |-> 0, lower |-> 128, upper |-> 191, bom |-> FALSE]

ResetDecoder(d) == [d EXCEPT !.cp = 0, !.seen = 0, !.needed = 0, !.lower = 128, !.upper = 191]

\* a first byte: ASCII, the lead byte of a sequence, or an error (U+FFFD)
FirstByte(d, b) ==
  IF b <= 127 THEN [dec |-> d, out |-> <<b>>]
  ELSE IF b >= 194 /\ b <= 223
    THEN [dec |-> [d EXCEPT !.needed = 1, !.cp = b % 32], out |-> <<>>]
  ELSE IF b >= 224 /\ b <= 239
    THEN [dec |-> [d EXCEPT !.needed = 2, !.cp = b % 16,
                            !.lower = IF b = 224 THEN 160 ELSE 128,
                            !.upper = IF b = 237 THEN 159 ELSE 191],
          out |-> <<>>]
  ELSE IF b >= 240 /\ b <= 244
    THEN [dec |-> [d EXCEPT !.needed = 3, !.cp = b % 8,
                            !.lower = IF b = 240 THEN 144 ELSE 128,
                            !.upper = IF b = 244 THEN 143 ELSE 191],
          out |-> <<>>]
  ELSE [dec |-> d, out |-> <<65533>>]

\* a byte that continues a sequence; the last one completes the code point
ContinuationByte(d, b) ==
  IF d.seen + 1 = d.needed
    THEN [dec |-> ResetDecoder(d), out |-> <<d.cp * 64 + (b % 64)>>]
    ELSE [dec |-> [d EXCEPT !.cp = d.cp * 64 + (b % 64), !.seen = d.seen + 1,
                            !.lower = 128, !.upper = 191],
          out |-> <<>>]

Emitted(first, r) == [dec |-> r.dec, out |-> first \o r.out]

\* The UTF-8 decoder's handler for one byte; a byte that breaks a sequence
\* yields U+FFFD and is then looked at again as a first byte.
DecodeByte(d, b) ==
  IF d.needed = 0 THEN FirstByte(d, b)
  ELSE IF b < d.lower \/ b > d.upper THEN Emitted(<<65533>>, FirstByte(ResetDecoder(d), b))
  ELSE ContinuationByte(d, b)

\* the bytes lo..hi in order, by halves; the first half is decoded before
\* the second half starts from the state it left (needed is never negative)
RECURSIVE DecodeRange(_, _, _, _)
DecodeRest(r, bytes, lo, hi) ==
  IF r.dec.needed >= 0 THEN Emitted(r.out, DecodeRange(r.dec, bytes, lo, hi)) ELSE r

DecodeRange(d, bytes, lo, hi) ==
  IF lo > hi THEN [dec |-> d, out |-> <<>>]
  ELSE IF lo = hi THEN DecodeByte(d, bytes[lo])
  ELSE DecodeRest(DecodeRange(d, bytes, lo, (lo + hi) \div 2), bytes, (lo + hi) \div 2 + 1, hi)

DecodeBytes(d, bytes) == DecodeRange(d, bytes, 1, Len(bytes))

\* a leading U+FEFF is dropped, once, when the first characters come out
StripBOM(r) ==
  IF r.dec.bom \/ r.out = <<>> THEN r
  ELSE [dec |-> [r.dec EXCEPT !.bom = TRUE],
        out |-> IF Head(r.out) = 65279 THEN Tail(r.out) ELSE r.out]

\* decoder.decode(value, { stream: true }): the pending bytes of a character
\* cut by the chunk stay in the decoder
DecodeStream(d, bytes) == StripBOM(DecodeBytes(d, bytes))

(***************************************************************************)
(* JSON.stringify of a string (QuoteJSONString) and JSON.parse.            *)
(***************************************************************************)
HexDigit(n) == IF n < 10 THEN 48 + n ELSE 87 + n

\* \uXXXX of a code unit
UnicodeEscape(c) ==
  <<92, 117, HexDigit(c \div 4096), HexDigit((c \div 256) % 16),
    HexDigit((c \div 16) % 16), HexDigit(c % 16)>>

QuoteChar(c) ==
  IF c = 34 THEN <<92, 34>>
  ELSE IF c = 92 THEN <<92, 92>>
  ELSE IF c = 8 THEN <<92, 98>>
  ELSE IF c = 12 THEN <<92, 102>>
  ELSE IF c = 10 THEN <<92, 110>>
  ELSE IF c = 13 THEN <<92, 114>>
  ELSE IF c = 9 THEN <<92, 116>>
  ELSE IF c < 32 \/ (c >= 55296 /\ c <= 57343) THEN UnicodeEscape(c)
  ELSE <<c>>

QuoteBody(s) == ConcatMap(QuoteChar, s, 1, Len(s))

\* JSON.stringify(s) of a string s
QuoteJSONString(s) == <<34>> \o QuoteBody(s) \o <<34>>

\* JSON.stringify({ key: s }) of an object with one string property
StringifyObject(key, s) == <<123>> \o QuoteJSONString(key) \o <<58>> \o QuoteJSONString(s) \o <<125>>

IsHex(c) == (c >= 48 /\ c <= 57) \/ (c >= 97 /\ c <= 102) \/ (c >= 65 /\ c <= 70)

HexValue(c) == IF c <= 57 THEN c - 48 ELSE IF c >= 97 THEN c - 87 ELSE c - 55

\* JSON white space: space, tab, line feed, carriage return
RECURSIVE SkipWs(_, _)
SkipWs(s, i) == IF i <= Len(s) /\ s[i] \in {32, 9, 10, 13} THEN SkipWs(s, i + 1) ELSE i

NoParse == [ok |-> FALSE, kind |-> "none", str |-> <<>>, members |-> <<>>, next |-> 0]

\* the characters of a JSON string from position i (after the opening quote)
RECURSIVE ParseChars(_, _, _)
ParseChars(s, i, acc) ==
  IF i > Len(s) THEN NoParse
  ELSE IF s[i] = 34
    THEN [ok |-> TRUE, kind |-> "string", str |-> acc, members |-> <<>>, next |-> i + 1]
  ELSE IF s[i] < 32 THEN NoParse
  ELSE IF s[i] # 92 THEN ParseChars(s, i + 1, Append(acc, s[i]))
  ELSE IF i + 1 > Len(s) THEN NoParse
  ELSE LET e == s[i + 1] IN
    IF e \in {34, 92, 47} THEN ParseChars(s, i + 2, Append(acc, e))
    ELSE IF e = 98 THEN ParseChars(s, i + 2, Append(acc, 8))
    ELSE IF e = 102 THEN ParseChars(s, i + 2, Append(acc, 12))
    ELSE IF e = 110 THEN ParseChars(s, i + 2, Append(acc, 10))
    ELSE IF e = 114 THEN ParseChars(s, i + 2, Append(acc, 13))
    ELSE IF e = 116 THEN ParseChars(s, i + 2, Append(acc, 9))
    ELSE IF e = 117 /\ i + 5 <= Len(s) /\ \A k \in 2..5 : IsHex(s[i + k])
      THEN ParseChars(s, i + 6,
             Append(acc, HexValue(s[i + 2]) * 4096 + HexValue(s[i + 3]) * 256
                         + HexValue(s[i + 4]) * 16 + HexValue(s[i + 5])))
    ELSE NoParse

\* a value of the payload language: a string or null
ParseValue(s, i) ==
  IF i > Len(s) THEN NoParse
  ELSE IF s[i] = 34 THEN ParseChars(s, i + 1, <<>>)
  ELSE IF i + 3 <= Len(s) /\ SubSeq(s, i, i + 3) = <<110, 117, 108, 108>>
    THEN [ok |-> TRUE, kind |-> "null", str |-> <<>>, members |-> <<>>, next |-> i + 4]
  ELSE NoParse

ObjectValue(members, next) ==
  [ok |-> TRUE, kind |-> "object", str |-> <<>>, members |-> members, next |-> next]

\* the members of an object from position i, up to the closing brace
RECURSIVE ParseMembers(_, _, _)
\* after a member: a comma and more members, or the closing brace at e
AfterMember(s, e, all) ==
  IF e > Len(s) THEN NoParse
  ELSE IF s[e] = 44 THEN ParseMembers(s, e + 1, all)
  ELSE IF s[e] = 125 THEN ObjectValue(all, e + 1)
  ELSE NoParse

MemberValue(s, key, val, acc) ==
  IF ~val.ok THEN NoParse
  ELSE AfterMember(s, SkipWs(s, val.next),
                   Append(acc, [key |-> key.str, kind |-> val.kind, str |-> val.str]))

\* after the key of a member: the colon at c, then the value
MemberColon(s, key, c, acc) ==
  IF c > Len(s) \/ s[c] # 58 THEN NoParse
  ELSE MemberValue(s, key, ParseValue(s, SkipWs(s, c + 1)), acc)

MemberKey(s, key, acc) ==
  IF ~key.ok THEN NoParse ELSE MemberColon(s, key, SkipWs(s, key.next), acc)

MemberAt(s, k, acc) ==
  IF k > Len(s) \/ s[k] # 34 THEN NoParse ELSE MemberKey(s, ParseChars(s, k + 1, <<>>), acc)

ParseMembers(s, i, acc) == MemberAt(s, SkipWs(s, i), acc)

\* an object whose opening brace is before position j
ParseObject(s, j) ==
  IF j <= Len(s) /\ s[j] = 125 THEN ObjectValue(<<>>, j + 1) ELSE ParseMembers(s, j, <<>>)

ParseTop(s, i) ==
  IF i <= Len(s) /\ s[i] = 123 THEN ParseObject(s, SkipWs(s, i + 1)) ELSE ParseValue(s, i)

\* nothing but white space may follow the value
Complete(s, v) == IF v.ok /\ SkipWs(s, v.next) = Len(s) + 1 THEN v ELSE NoParse

\* JSON.parse(s), exact for strings, null and objects whose members are
\* strings or null; ok = FALSE is the SyntaxError
JSONParse(s) == Complete(s, ParseTop(s, SkipWs(s, 1)))

Undefined == [kind |-> "undefined", str |-> <<>>]

\* parsed[key] of a parsed value that is not null: the last member of that
\* name of an object, undefined otherwise
RECURSIVE Property(_, _, _)
Property(members, key, n) ==
  IF n = 0 THEN Undefined
  ELSE IF members[n].key = key THEN [kind |-> members[n].kind, str |-> members[n].str]
  ELSE Property(members, key, n - 1)

\* ToBoolean of a property value: a non-empty string
Truthy(v) == v.kind = "string" /\ v.str # <<>>

(***************************************************************************)
(* String.prototype.trim and split.                                        *)
(***************************************************************************)
IsWhiteSpace(c) ==
  c \in {9, 10, 11, 12, 13, 32, 160, 5760, 8232, 8233, 8239, 8287, 12288, 65279}
  \/ (c >= 8192 /\ c <= 8202)

RECURSIVE TrimStart(_)
TrimStart(s) == IF s # <<>> /\ IsWhiteSpace(Head(s)) THEN TrimStart(Tail(s)) ELSE s

RECURSIVE TrimEnd(_)
TrimEnd(s) ==
  IF s # <<>> /\ IsWhiteSpace(Last(s)) THEN TrimEnd(SubSeq(s, 1, Len(s) - 1)) ELSE s

Trim(s) == TrimEnd(TrimStart(s))

\* s.indexOf(sep, from): the first place at or after from where sep occurs, 0 if none
IndexOf(s, sep, from) ==
  IF \E i \in from..(Len(s) - Len(sep) + 1) : SubSeq(s, i, i + Len(sep) - 1) = sep
    THEN CHOOSE i \in from..(Len(s) - Len(sep) + 1) :
           /\ SubSeq(s, i, i + Len(sep) - 1) = sep
           /\ \A j \in from..(i - 1) : SubSeq(s, j, j + Len(sep) - 1) # sep
    ELSE 0

\* s.split(sep): the segments between the occurrences of sep, found from the left
RECURSIVE SplitFrom(_, _, _)
SplitAt(s, sep, start, i) ==
  IF i = 0 THEN <<SubSeq(s, start, Len(s))>>
  ELSE <<SubSeq(s, start, i - 1)>> \o SplitFrom(s, sep, i + Len(sep))

SplitFrom(s, sep, start) == SplitAt(s, sep, start, IndexOf(s, sep, start))

Split(s, sep) == SplitFrom(s, sep, 1)

\* all but the last element (prev.slice(0, -1), and parts after parts.pop())
Front(s) == IF s = <<>> THEN <<>> ELSE SubSeq(s, 1, Len(s) - 1)

(***************************************************************************)
(* App.tsx: the updates sendMessage applies to the messages state.         *)
(***************************************************************************)
Msg(role, content) == [role |-> role, content |-> content]

\* an updater that keeps only the newest delta
AppendTextOverwrite(prev, text) ==
  IF prev # <<>> /\ Last(prev).role = "assistant"
    THEN Front(prev) \o <<[Last(prev) EXCEPT !.content = text]>>
    ELSE prev

\* the updater of a text delta: append to the last message if it is the
\* assistant's, otherwise leave the messages alone
AppendText(prev, text) ==
  IF prev # <<>> /\ Last(prev).role = "assistant"
    THEN Front(prev) \o <<[Last(prev) EXCEPT !.content = @ \o text]>>
    ELSE prev

\* an updater that adds the error as one more message
ReplaceWithErrorAppends(prev, err) == prev \o <<Msg("assistant", ErrorPrefix \o err)>>

\* the updater of an error frame: the last message is replaced
ReplaceWithError(prev, err) == Front(prev) \o <<Msg("assistant", ErrorPrefix \o err)>>

\* updated[updated.length - 1] = { role: 'assistant', content }: assigning
\* index -1 of an empty array adds no element
SetLast(prev, content) ==
  IF prev = <<>> THEN prev ELSE Front(prev) \o <<Msg("assistant", content)>>

\* if (parsed.text) setMessages(...)
ApplyText(prev, text) == IF Truthy(text) THEN AppendText(prev, text.str) ELSE prev

\* if (parsed.error) setMessages(...)
ApplyError(prev, err) == IF Truthy(err) THEN ReplaceWithError(prev, err.str) ELSE prev

\* the two updates of a parsed object, the text first
ApplyParsed(prev, members) ==
  ApplyError(ApplyText(prev, Property(members, KeyText, Len(members))),
             Property(members, KeyError, Len(members)))

\* the try block after JSON.parse returned or threw: threw = TRUE is the
\* SyntaxError of JSON.parse or the TypeError of reading a property of null,
\* both raised before any update
TryBlock(prev, parsed) ==
  IF ~parsed.ok \/ parsed.kind = "null" THEN [msgs |-> prev, threw |-> TRUE]
  ELSE [msgs |-> ApplyParsed(prev, parsed.members), threw |-> FALSE]

\* try { const parsed = JSON.parse(data) ... }
ApplyPayload(prev, data) == TryBlock(prev, JSONParse(data))

\* a catch block that throws the error again
CatchParseErrorRethrow(r) == r

\* catch { // JSON parse error, skip }
CatchParseError(r) == [r EXCEPT !.threw = FALSE]

\* a test that lets [DONE] through
IsDoneNever(data) == FALSE

\* if (data === '[DONE]') continue
IsDone(data) == data = DoneLiteral

WithCall(r, data) == [msgs |-> r.msgs, threw |-> r.threw, calls |-> <<data>>]

\* a payload: the [DONE] test, then the try block and its catch. calls lists
\* the payloads handed to JSON.parse.
ProcessData(prev, data) ==
  IF IsDone(data) THEN [msgs |-> prev, threw |-> FALSE, calls |-> <<>>]
  ELSE WithCall(CatchParseError(ApplyPayload(prev, data)), data)

\* a trimmed element of parts: the 'data: ' test
ProcessLine(prev, line) ==
  IF ~StartsWith(line, DataPrefix) THEN [msgs |-> prev, threw |-> FALSE, calls |-> <<>>]
  ELSE ProcessData(prev, Slice(line, Len(DataPrefix)))

\* one element of parts
ProcessPart(prev, part) == ProcessLine(prev, Trim(part))

\* the rest of the for loop after one part gave r
RECURSIVE ProcessParts(_, _, _)
AfterPart(r, rest, calls) ==
  IF r.threw THEN [msgs |-> r.msgs, threw |-> TRUE, calls |-> calls \o r.calls]
  ELSE ProcessParts(r.msgs, rest, calls \o r.calls)

\* for (const part of parts): in order, left as soon as one throws
ProcessParts(prev, parts, calls) ==
  IF parts = <<>> THEN [msgs |-> prev, threw |-> FALSE, calls |-> calls]
  ELSE AfterPart(ProcessPart(prev, Head(parts)), Tail(parts), calls)

\* a loop that keeps nothing of the text after the last delimiter
KeepLastNothing(parts) == <<>>

\* buffer = parts.pop() || ''
KeepLast(parts) == Last(parts)

\* a decoder that forgets the bytes it holds between two calls
DecodeRestart(d, value) == DecodeStream(NewDecoder, value)

\* decoder.decode(value, { stream: true }) of the loop
Decode(d, value) == DecodeStream(d, value)

\* the loop body once the parts are split and the decoder has moved on
CycleResult(dec, parts, r) ==
  [buffer |-> KeepLast(parts), decoder |-> dec, msgs |-> r.msgs, threw |-> r.threw,
   calls |-> r.calls, parts |-> Front(parts)]

CycleParts(dec, prev, parts) == CycleResult(dec, parts, ProcessParts(prev, Front(parts), <<>>))

CycleDecoded(buf, prev, d) == CycleParts(d.dec, prev, Split(buf \o d.out, Delimiter))

\* one pass of the while loop after a read that returned value
ReadCycle(buf, dec, prev, value) == CycleDecoded(buf, prev, Decode(dec, value))

(***************************************************************************)
(* The handler: JavaScript values of the request, frames of the response.  *)
(***************************************************************************)
JString(s) == [kind |-> "string", str |-> s]
JNumber(digits) == [kind |-> "number", str |-> digits]
JTrue == [kind |-> "true", str |-> <<>>]
JFalse == [kind |-> "false", str |-> <<>>]
JNull == [kind |-> "null", str |-> <<>>]
JObject == [kind |-> "object", str |-> <<>>]

\* !v is FALSE
ToBoolean(v) ==
  \/ v.kind \in {"true", "object"}
  \/ v.kind = "string" /\ v.str # <<>>
  \/ v.kind = "number" /\ v.str # <<48>>

\* `${v}` of a template literal
TemplateString(v) ==
  IF v.kind = "undefined" THEN <<117, 110, 100, 101, 102, 105, 110, 101, 100>>
  ELSE IF v.kind = "null" THEN <<110, 117, 108, 108>>
  ELSE v.str

\* 'hello'
Hello == <<104, 101, 108, 108, 111>>

\* req.body when a body was sent
Body(message, stream) == [present |-> TRUE, message |-> message, stream |-> stream]
\* req.body of a request without a body: undefined
NoBody == [present |-> FALSE, message |-> Undefined, stream |-> Undefined]

MessageValues ==
  {Undefined, JNull, JString(<<>>), JString(Hello), JNumber(<<55>>), JNumber(<<48>>),
   JObject, JTrue}
StreamValues == {Undefined, JTrue, JFalse}
Methods == {"POST", "GET", "OPTIONS"}
Requests ==
  {[method |-> m, body |-> b] :
     m \in Methods,
     b \in {NoBody} \cup {Body(msg, st) : msg \in MessageValues, st \in StreamValues}}

\* the texts a text delta may carry: '', 'Hi', 'あ"\n\n'
DeltaTexts == {<<>>, <<72, 105>>, <<12354, 34, 10, 10>>}

TextDelta(t) == [type |-> "modelContentBlockDeltaEvent", delta |-> "textDelta", text |-> t]
\* the events agent.stream may yield; only the first kind carries text to send
AgentEvents ==
  {TextDelta(t) : t \in DeltaTexts}
  \cup {[type |-> "modelContentBlockDeltaEvent", delta |-> "toolUseInputDelta", text |-> <<123>>]}

\* a test that takes every content-block delta for a text delta
IsAnyDelta(ev) == ev.type = "modelContentBlockDeltaEvent"

\* event.type === 'modelContentBlockDeltaEvent' && event.delta.type === 'textDelta'
IsTextDelta(ev) == ev.type = "modelContentBlockDeltaEvent" /\ ev.delta = "textDelta"

\* `data: ${JSON.stringify({ text: event.delta.text })}\n\n`
TextFrame(t) == DataPrefix \o StringifyObject(KeyText, t) \o Delimiter
\* `data: [DONE]\n\n`
DoneFrame == DataPrefix \o DoneLiteral \o Delimiter
\* `data: ${JSON.stringify({ error: 'ストリームエラー' })}\n\n`
ErrorFrame == DataPrefix \o StringifyObject(KeyError, StreamErrorText) \o Delimiter

\* a frame sent without its last newline, which a second call sends
WriteCallsSplit(frame) == <<Front(frame), <<10>>>>

\* the res.write calls that send one frame
WriteCalls(frame) == <<frame>>

\* the writes of the response after the frames of ws and one more frame
AddWrites(ws, frame) == ws \o WriteCalls(frame)

\* a content block: one with a text, or one without (a tool use, say)
TextBlock(t) == [hasText |-> TRUE, text |-> t]
OtherBlock == [hasText |-> FALSE, text |-> <<>>]

\* the content of a final message: one string, or a sequence of content blocks
StringContent(t) == [shape |-> "string", text |-> t, blocks |-> <<>>]
BlocksContent(bs) == [shape |-> "blocks", text |-> <<>>, blocks |-> bs]
NoContent == BlocksContent(<<>>)

NoJson == [kind |-> "none", str |-> <<>>, content |-> NoContent]
ErrorJson(text) == [kind |-> "error", str |-> text, content |-> NoContent]
\* { response: result.lastMessage?.content }
ResponseJson(content) == [kind |-> "response", str |-> <<>>, content |-> content]

StreamHeaders ==
  {<<"Content-Type", "text/event-stream">>, <<"Cache-Control", "no-cache">>,
   <<"Connection", "keep-alive">>}

VARIABLES
  impl,        \* which handler is deployed: "stream" (with the streaming mode) or "invoke"
  req,         \* the request being handled
  spc,         \* where the handler is: idle, start, invoke, stream, done
  status,      \* res.status(...), 0 while unset
  jsonBody,    \* res.json(...)
  headers,     \* res.setHeader(...)
  writes,      \* the arguments of the res.write calls that returned, in order
  ended,       \* res.end() or res.json() was called
  closedLen,   \* Len(writes) when the response was ended, -1 before
  agentCalls,  \* calls of agent.invoke and agent.stream
  bodyRead,    \* req.body was read
  events,      \* the events agent.stream has yielded
  connected,   \* the client still holds the connection
  agentDone,   \* the event sequence completed without failure
  agentThrew,  \* the event sequence failed
  writeThrew,  \* number of res.write calls that threw
  escaped      \* an exception left the handler

svars == <<impl, req, spc, status, jsonBody, headers, writes, ended, closedLen, agentCalls,
           bodyRead, events, connected, agentDone, agentThrew, writeThrew, escaped>>

VARIABLES
  wire,        \* the bytes of the response body sent so far
  wireEnd      \* the body is complete

wvars == <<wire, wireEnd>>

VARIABLES
  messages,    \* the messages state
  input,       \* the input state
  isLoading,   \* the isLoading state
  cpc,         \* where sendMessage is: idle, fetch, json, read
  buffer,      \* let buffer
  decoder,     \* the TextDecoder's pending bytes
  rpos,        \* bytes of the body the reader has handed out
  parseCalls,  \* the payloads given to JSON.parse since the request was sent
  lastParts,   \* the complete frames of the last pass of the loop
  frames,      \* the frames the body was made of, when it was made here
  base,        \* the messages when the request was sent
  exit,        \* how the last call ended: none, done (the loop was left by break),
               \* notok, rejected (an await rejected), threw (the loop body threw)
  cuts         \* where reads have cut the body: char, delimiter, payload, boundary

cvars == <<messages, input, isLoading, cpc, buffer, decoder, rpos, parseCalls, lastParts,
           frames, base, exit, cuts>>

NoRequest == [method |-> "none", body |-> NoBody]

ServerInit ==
  /\ impl \in {"stream", "invoke"}
  /\ req = NoRequest
  /\ spc = "idle"
  /\ status = 0
  /\ jsonBody = NoJson
  /\ headers = {}
  /\ writes = <<>>
  /\ ended = FALSE
  /\ closedLen = -1
  /\ agentCalls = [invoke |-> 0, stream |-> 0]
  /\ bodyRead = FALSE
  /\ events = <<>>
  /\ connected = TRUE
  /\ agentDone = FALSE
  /\ agentThrew = FALSE
  /\ writeThrew = 0
  /\ escaped = FALSE

WireInit == wire = <<>> /\ wireEnd = FALSE

(***************************************************************************)
(* The handler's steps.                                                    *)
(***************************************************************************)
\* a request reaches the function
Request(r) ==
  /\ spc = "idle"
  /\ req' = r
  /\ spc' = "start"
  /\ UNCHANGED <<impl, status, jsonBody, headers, writes, ended, closedLen, agentCalls,
                 bodyRead, events, connected, agentDone, agentThrew, writeThrew, escaped>>
  /\ UNCHANGED wvars
  /\ UNCHANGED cvars

\* !message || typeof message !== 'string'
MessageMissing(message) == ~ToBoolean(message) \/ message.kind # "string"

\* a handler that looks at the body before the method
RouteBodyFirst(handler, r) ==
  IF ~r.body.present THEN (IF handler = "invoke" THEN "500" ELSE "throw")
  ELSE IF MessageMissing(r.body.message) THEN "400"
  ELSE IF r.method # "POST" THEN "405"
  ELSE IF handler = "stream" /\ ToBoolean(r.body.stream) THEN "stream"
  ELSE "invoke"

\* what the handler does before its first await: "405", "400", "500" (the
\* invoke-only handler catches the TypeError of destructuring an undefined
\* body), "throw" (the streaming handler destructures outside any try),
\* "stream" or "invoke"
Route(handler, r) ==
  IF r.method # "POST" THEN "405"
  ELSE IF ~r.body.present THEN (IF handler = "invoke" THEN "500" ELSE "throw")
  ELSE IF MessageMissing(r.body.message) THEN "400"
  ELSE IF handler = "stream" /\ ToBoolean(r.body.stream) THEN "stream"
  ELSE "invoke"

\* return res.status(code).json({ error: text })
RouteStatus(route) == IF route = "405" THEN 405 ELSE IF route = "400" THEN 400 ELSE 500
RouteError(route) ==
  IF route = "405" THEN MethodNotAllowedText
  ELSE IF route = "400" THEN MessageRequiredText
  ELSE InternalErrorText

\* handler(req, res) up to its first await
HandlerEntry ==
  /\ spc = "start"
  /\ LET route == Route(impl, req) IN
     /\ bodyRead' = (route # "405")
     /\ IF route \in {"405", "400", "500"}
          THEN /\ status' = RouteStatus(route)
               /\ jsonBody' = ErrorJson(RouteError(route))
               /\ ended' = TRUE
               /\ closedLen' = Len(writes)
               /\ spc' = "done"
               /\ UNCHANGED <<headers, agentCalls, escaped>>
          ELSE IF route = "throw"
            THEN /\ escaped' = TRUE
                 /\ spc' = "done"
                 /\ UNCHANGED <<status, jsonBody, ended, closedLen, headers, agentCalls>>
          ELSE IF route = "stream"
            THEN /\ headers' = StreamHeaders
                 /\ agentCalls' = [agentCalls EXCEPT !.stream = @ + 1]
                 /\ spc' = "stream"
                 /\ UNCHANGED <<status, jsonBody, ended, closedLen, escaped>>
          ELSE /\ agentCalls' = [agentCalls EXCEPT !.invoke = @ + 1]
               /\ spc' = "invoke"
               /\ UNCHANGED <<status, jsonBody, ended, closedLen, headers, escaped>>
  /\ UNCHANGED <<impl, req, writes, events, connected, agentDone, agentThrew, writeThrew>>
  /\ UNCHANGED wvars
  /\ UNCHANGED cvars

\* await agent.invoke(message) returns: 200 with the content
AgentInvokeReturns(content) ==
  /\ spc = "invoke"
  /\ status' = 200
  /\ jsonBody' = ResponseJson(content)
  /\ ended' = TRUE
  /\ closedLen' = Len(writes)
  /\ spc' = "done"
  /\ UNCHANGED <<impl, req, headers, writes, agentCalls, bodyRead, events, connected,
                 agentDone, agentThrew, writeThrew, escaped>>
  /\ UNCHANGED wvars
  /\ UNCHANGED cvars

\* await agent.invoke(message) throws: 500
AgentInvokeThrows ==
  /\ spc = "invoke"
  /\ status' = 500
  /\ jsonBody' = ErrorJson(InternalErrorText)
  /\ ended' = TRUE
  /\ closedLen' = Len(writes)
  /\ spc' = "done"
  /\ agentThrew' = TRUE
  /\ UNCHANGED <<impl, req, headers, writes, agentCalls, bodyRead, events, connected,
                 agentDone, writeThrew, escaped>>
  /\ UNCHANGED wvars
  /\ UNCHANGED cvars

\* res.write throws only once the client is gone, and need not even then
WriteOutcomes == IF connected THEN {FALSE} ELSE {FALSE, TRUE}

\* an exit that writes [DONE] and leaves the response open
StreamExitUnclosed(ws, failed, doneFails, errFails) ==
  [writes |-> AddWrites(ws, DoneFrame), ended |-> FALSE, escaped |-> FALSE]

\* try { ... res.write(`data: [DONE]\n\n`); res.end() } once the loop is left,
\* and the catch block: failed says that the try block threw, doneFails
\* that the [DONE] write did, errFails that the write of the catch block did
StreamExit(ws, failed, doneFails, errFails) ==
  IF ~failed /\ ~doneFails
    THEN [writes |-> AddWrites(ws, DoneFrame), ended |-> TRUE, escaped |-> FALSE]
  ELSE IF errFails THEN [writes |-> ws, ended |-> FALSE, escaped |-> TRUE]
  ELSE [writes |-> AddWrites(ws, ErrorFrame), ended |-> TRUE, escaped |-> FALSE]

\* the response after the streaming mode was left
LeaveStream(x, thrown) ==
  /\ writes' = x.writes
  /\ wire' = wire \o UTF8Encode(Flatten(SubSeq(x.writes, Len(writes) + 1, Len(x.writes))))
  /\ ended' = x.ended
  /\ wireEnd' = x.ended
  /\ closedLen' = IF x.ended THEN Len(x.writes) ELSE -1
  /\ escaped' = x.escaped
  /\ writeThrew' = writeThrew + thrown
  /\ spc' = "done"

Count(b) == IF b THEN 1 ELSE 0

\* the for await loop takes the next event
AgentYields(ev) ==
  /\ spc = "stream"
  /\ Len(events) < MaxEvents
  /\ events' = Append(events, ev)
  /\ \E fail \in WriteOutcomes, errFails \in WriteOutcomes :
       IF ~IsTextDelta(ev)
         THEN UNCHANGED <<writes, ended, closedLen, escaped, writeThrew, spc, wire, wireEnd>>
       ELSE IF ~fail
         THEN /\ writes' = AddWrites(writes, TextFrame(ev.text))
              /\ wire' = wire \o UTF8Encode(Flatten(WriteCalls(TextFrame(ev.text))))
              /\ UNCHANGED <<ended, closedLen, escaped, writeThrew, spc, wireEnd>>
       ELSE LeaveStream(StreamExit(writes, TRUE, FALSE, errFails), 1 + Count(errFails))
  /\ UNCHANGED <<impl, req, status, jsonBody, headers, agentCalls, bodyRead, connected,
                 agentDone, agentThrew>>
  /\ UNCHANGED cvars

\* the event sequence ends: [DONE], res.end()
AgentCompletes ==
  /\ spc = "stream"
  /\ agentDone' = TRUE
  /\ \E doneFails \in WriteOutcomes, errFails \in WriteOutcomes :
       LeaveStream(StreamExit(writes, FALSE, doneFails, doneFails /\ errFails),
                   Count(doneFails) + Count(doneFails /\ errFails))
  /\ UNCHANGED <<impl, req, status, jsonBody, headers, agentCalls, bodyRead, events,
                 connected, agentThrew>>
  /\ UNCHANGED cvars

\* the event sequence throws: the catch block
AgentThrows ==
  /\ spc = "stream"
  /\ agentThrew' = TRUE
  /\ \E errFails \in WriteOutcomes :
       LeaveStream(StreamExit(writes, TRUE, FALSE, errFails), Count(errFails))
  /\ UNCHANGED <<impl, req, status, jsonBody, headers, agentCalls, bodyRead, events,
                 connected, agentDone>>
  /\ UNCHANGED cvars

\* the client goes away while the response is streamed
ClientDisconnects ==
  /\ spc = "stream"
  /\ connected
  /\ connected' = FALSE
  /\ UNCHANGED <<impl, req, spc, status, jsonBody, headers, writes, ended, closedLen,
                 agentCalls, bodyRead, events, agentDone, agentThrew, writeThrew, escaped>>
  /\ UNCHANGED wvars
  /\ UNCHANGED cvars

\* what agent.invoke may return as content: 'Hi', '', [], [{text:'a'},{},{text:'b'}],
\* [{},{text:''}], [{text:'Hi'}]
InvokeContents ==
  {StringContent(<<72, 105>>), StringContent(<<>>), BlocksContent(<<>>),
   BlocksContent(<<TextBlock(<<97>>), OtherBlock, TextBlock(<<98>>)>>),
   BlocksContent(<<OtherBlock, TextBlock(<<>>)>>),
   BlocksContent(<<TextBlock(<<72, 105>>)>>)}

ServerNext ==
  \/ \E r \in Requests : Request(r)
  \/ HandlerEntry
  \/ \E c \in InvokeContents : AgentInvokeReturns(c)
  \/ AgentInvokeThrows
  \/ \E ev \in AgentEvents : AgentYields(ev)
  \/ AgentCompletes
  \/ AgentThrows
  \/ ClientDisconnects

(***************************************************************************)
(* App.tsx: sendMessage.                                                   *)
(***************************************************************************)
vars == <<svars, wvars, cvars>>

ClientInit ==
  /\ messages = <<>>
  /\ input = <<>>
  /\ isLoading = FALSE
  /\ cpc = "idle"
  /\ buffer = <<>>
  /\ decoder = NewDecoder
  /\ rpos = 0
  /\ parseCalls = {}
  /\ lastParts = <<>>
  /\ frames = <<>>
  /\ base = <<>>
  /\ exit = "none"
  /\ cuts = {}

\* what the user may type: '', ' ', 'hi', ' hi '
Inputs == {<<>>, <<32>>, <<104, 105>>, <<32, 104, 105, 32>>}

\* onChange of the input, which is disabled while isLoading
SetInput(v) ==
  /\ ~isLoading
  /\ Len(messages) < 2 * MaxSends
  /\ input # v
  /\ input' = v
  /\ UNCHANGED <<messages, isLoading, cpc, buffer, decoder, rpos, parseCalls, lastParts,
                 frames, base, exit, cuts>>
  /\ UNCHANGED <<svars, wvars>>

\* if (!input.trim() || isLoading) return: the call goes on
SendGuard == Trim(input) # <<>> /\ ~isLoading

\* a sendMessage that adds the user message but no assistant message
SendStartNoPlaceholder ==
  /\ SendGuard
  /\ cpc = "idle"
  /\ Len(messages) < 2 * MaxSends
  /\ messages' = messages \o <<Msg("user", Trim(input))>>
  /\ base' = messages'
  /\ input' = <<>>
  /\ isLoading' = TRUE
  /\ cpc' = "fetch"
  /\ parseCalls' = {}
  /\ lastParts' = <<>>
  /\ exit' = "none"
  /\ cuts' = {}
  /\ frames' = <<>>
  /\ UNCHANGED <<buffer, decoder, rpos>>

\* sendMessage up to the await of fetch: the guard, the user message, the
\* empty assistant message
SendStart ==
  /\ SendGuard
  /\ cpc = "idle"
  /\ Len(messages) < 2 * MaxSends
  /\ messages' = messages \o <<Msg("user", Trim(input)), Msg("assistant", <<>>)>>
  /\ base' = messages'
  /\ input' = <<>>
  /\ isLoading' = TRUE
  /\ cpc' = "fetch"
  /\ parseCalls' = {}
  /\ lastParts' = <<>>
  /\ exit' = "none"
  /\ cuts' = {}
  /\ frames' = <<>>
  /\ UNCHANGED <<buffer, decoder, rpos>>

\* sendMessage called while no request is in flight
SendMessage == SendStart /\ UNCHANGED <<svars, wvars>>

\* catch { ... '通信エラーが発生しました' } finally { setIsLoading(false) }
\* (the locals of the call are gone with it)
CatchAndFinally(prev, why) ==
  /\ messages' = SetLast(prev, ConnectionError)
  /\ isLoading' = FALSE
  /\ cpc' = "idle"
  /\ exit' = why
  /\ buffer' = <<>>
  /\ decoder' = NewDecoder
  /\ rpos' = 0
  /\ cuts' = {}

\* a finally block that leaves isLoading as it is
FinallyKeepsLoading ==
  /\ isLoading' = isLoading
  /\ cpc' = "idle"

\* finally { setIsLoading(false) } after the loop was left by break
Finally ==
  /\ isLoading' = FALSE
  /\ cpc' = "idle"

\* const reader = ...; const decoder = new TextDecoder(); let buffer = ''
BeginRead ==
  /\ cpc' = "read"
  /\ buffer' = <<>>
  /\ decoder' = NewDecoder
  /\ rpos' = 0

\* where a read that ends after byte p of the body w cuts it
CutKinds(w, p, dec, buf) ==
  IF p < 1 \/ p >= Len(w) THEN {}
  ELSE (IF dec.needed > 0 THEN {"char"} ELSE {})
       \cup (IF w[p] = 10 /\ w[p + 1] = 10 THEN {"delimiter"} ELSE {})
       \cup (IF p >= 2 /\ w[p] = 10 /\ w[p - 1] = 10 /\ buf = <<>> THEN {"boundary"} ELSE {})
       \cup (IF Len(buf) > Len(DataPrefix) /\ StartsWith(buf, DataPrefix) /\ Last(buf) # 10
               THEN {"payload"} ELSE {})

\* await reader.read() returns the next n bytes: one pass of the loop
ReadChunk(n) ==
  /\ cpc = "read"
  /\ rpos + n <= Len(wire)
  /\ \E r \in {ReadCycle(buffer, decoder, messages, SubSeq(wire, rpos + 1, rpos + n))} :
     /\ parseCalls' = parseCalls \cup {r.calls[i] : i \in 1..Len(r.calls)}
     /\ lastParts' = r.parts
     /\ IF r.threw
          THEN CatchAndFinally(r.msgs, "threw")
          ELSE /\ messages' = r.msgs
               /\ rpos' = rpos + n
               /\ buffer' = r.buffer
               /\ decoder' = r.decoder
               /\ cuts' = cuts \cup CutKinds(wire, rpos + n, r.decoder, r.buffer)
               /\ UNCHANGED <<isLoading, cpc, exit>>
  /\ UNCHANGED <<input, frames, base>>
  /\ UNCHANGED <<svars, wvars>>

\* the sizes a chunk may have: any part of what was sent and not yet read
ReadSizes == 0..(Len(wire) - rpos)

Read == \E n \in ReadSizes : ReadChunk(n)

\* a loop that handles what is left in the buffer as a last frame when the
\* stream is done
ReadDoneFlushes ==
  /\ cpc = "read"
  /\ wireEnd
  /\ rpos = Len(wire)
  /\ Finally
  /\ exit' = "done"
  /\ \E r \in {ProcessPart(messages, buffer)} :
       /\ messages' = r.msgs
       /\ parseCalls' = parseCalls \cup {r.calls[i] : i \in 1..Len(r.calls)}
  /\ UNCHANGED <<input, buffer, decoder, rpos, lastParts, frames, base, cuts>>
  /\ UNCHANGED <<svars, wvars>>

\* await reader.read() returns done: break, finally
ReadDone ==
  /\ cpc = "read"
  /\ wireEnd
  /\ rpos = Len(wire)
  /\ Finally
  /\ exit' = "done"
  /\ UNCHANGED <<messages, input, buffer, decoder, rpos, parseCalls, lastParts, frames,
                 base, cuts>>
  /\ UNCHANGED <<svars, wvars>>

\* a rejected read that sets the message and lets the loop go on
ReadRejectsGoesOn ==
  /\ cpc = "read"
  /\ messages' = SetLast(messages, ConnectionError)
  /\ exit' = "rejected"
  /\ UNCHANGED <<input, isLoading, cpc, buffer, decoder, rpos, parseCalls, lastParts,
                 frames, base, cuts>>
  /\ UNCHANGED <<svars, wvars>>

\* await reader.read() rejects
ReadRejects ==
  /\ cpc = "read"
  /\ CatchAndFinally(messages, "rejected")
  /\ UNCHANGED <<input, parseCalls, lastParts, frames, base>>
  /\ UNCHANGED <<svars, wvars>>

\* await fetch(...) rejects
FetchRejects ==
  /\ cpc = "fetch"
  /\ CatchAndFinally(messages, "rejected")
  /\ UNCHANGED <<input, parseCalls, lastParts, frames, base>>
  /\ UNCHANGED <<svars, wvars>>

\* fetch resolves with a response that has no body: throw new Error('No reader')
FetchNoBody ==
  /\ cpc = "fetch"
  /\ CatchAndFinally(messages, "rejected")
  /\ UNCHANGED <<input, parseCalls, lastParts, frames, base>>
  /\ UNCHANGED <<svars, wvars>>

\* fetch resolves with !res.ok: await res.json()
FetchNotOk ==
  /\ cpc = "fetch"
  /\ cpc' = "json"
  /\ UNCHANGED <<messages, input, isLoading, buffer, decoder, rpos, parseCalls, lastParts,
                 frames, base, exit, cuts>>
  /\ UNCHANGED <<svars, wvars>>

\* the error property of the bodies a failed request may carry
ErrorBodies ==
  {JString(MethodNotAllowedText), JString(MessageRequiredText), JString(InternalErrorText),
   Undefined}

\* res.json() resolves with data: `エラー: ${data.error}`, return, finally
JsonResolves(err) ==
  /\ cpc = "json"
  /\ messages' = SetLast(messages, ErrorPrefix \o TemplateString(err))
  /\ Finally
  /\ exit' = "notok"
  /\ UNCHANGED <<input, buffer, decoder, rpos, parseCalls, lastParts, frames, base, cuts>>
  /\ UNCHANGED <<svars, wvars>>

\* res.json() rejects: the body is no JSON
JsonRejects ==
  /\ cpc = "json"
  /\ CatchAndFinally(messages, "rejected")
  /\ UNCHANGED <<input, parseCalls, lastParts, frames, base>>
  /\ UNCHANGED <<svars, wvars>>

(***************************************************************************)
(* The consumer alone, fed a body made of arbitrary frames.                *)
(***************************************************************************)
\* a frame of the body: a text delta ('Hi', ' あ'), an error ('x', ''),
\* [DONE], a payload that is no JSON ({"text":"a), a payload that is JSON
\* without text or error (null), a line that is no data (':' and a newline)
Frame(kind, arg) == [kind |-> kind, arg |-> arg]

FrameKinds ==
  {Frame("text", <<72, 105>>), Frame("text", <<32, 12354>>),
   Frame("error", <<120>>), Frame("error", <<>>),
   Frame("done", <<>>),
   Frame("malformed", <<123, 34, 116, 101, 120, 116, 34, 58, 34, 97>>),
   Frame("other", <<110, 117, 108, 108>>),
   Frame("comment", <<58, 10>>)}

\* the frame as text, without its delimiter
FrameString(f) ==
  IF f.kind = "text" THEN DataPrefix \o StringifyObject(KeyText, f.arg)
  ELSE IF f.kind = "error" THEN DataPrefix \o StringifyObject(KeyError, f.arg)
  ELSE IF f.kind = "done" THEN DataPrefix \o DoneLiteral
  ELSE IF f.kind = "comment" THEN f.arg
  ELSE DataPrefix \o f.arg

RECURSIVE BodyText(_)
BodyText(fs) == IF fs = <<>> THEN <<>> ELSE FrameString(Head(fs)) \o Delimiter \o BodyText(Tail(fs))

FrameSeqs == UNION {[1..n -> FrameKinds] : n \in 0..MaxFrames}

\* fetch resolves with res.ok and a body made of the frames fs
FetchResolves(fs) ==
  /\ cpc = "fetch"
  /\ frames' = fs
  /\ wire' = UTF8Encode(BodyText(fs))
  /\ wireEnd' = TRUE
  /\ BeginRead
  /\ UNCHANGED <<messages, input, isLoading, parseCalls, lastParts, base, exit, cuts>>
  /\ UNCHANGED svars

\* the frames a body may end with, the blank line after them missing:
\* a text delta ('!'), an error ('!')
TailFrames == {Frame("text", <<33>>), Frame("error", <<33>>)}

\* fetch resolves with res.ok and a body made of the frames fs followed by
\* the frame t without its delimiter
FetchResolvesUnterminated(fs, t) ==
  /\ cpc = "fetch"
  /\ Len(fs) < MaxFrames
  /\ frames' = fs
  /\ wire' = UTF8Encode(BodyText(fs) \o FrameString(t))
  /\ wireEnd' = TRUE
  /\ BeginRead
  /\ UNCHANGED <<messages, input, isLoading, parseCalls, lastParts, base, exit, cuts>>
  /\ UNCHANGED svars

ClientNext ==
  \/ \E v \in Inputs : SetInput(v)
  \/ SendMessage
  \/ \E fs \in FrameSeqs : FetchResolves(fs)
  \/ \E fs \in FrameSeqs, t \in TailFrames : FetchResolvesUnterminated(fs, t)
  \/ FetchRejects
  \/ FetchNoBody
  \/ FetchNotOk
  \/ \E e \in ErrorBodies : JsonResolves(e)
  \/ JsonRejects
  \/ Read
  \/ ReadDone
  \/ ReadRejects

(***************************************************************************)
(* The client and the streaming handler together.                          *)
(***************************************************************************)
\* fetch('/api/agent', { method: 'POST', body: JSON.stringify({ message:
\* userMessage, stream: true }) }) starts one invocation of the handler
Send ==
  /\ SendStart
  /\ req' = [method |-> "POST", body |-> Body(JString(Trim(input)), JTrue)]
  /\ spc' = "start"
  /\ status' = 0
  /\ jsonBody' = NoJson
  /\ headers' = {}
  /\ writes' = <<>>
  /\ ended' = FALSE
  /\ closedLen' = -1
  /\ agentCalls' = [invoke |-> 0, stream |-> 0]
  /\ bodyRead' = FALSE
  /\ events' = <<>>
  /\ connected' = TRUE
  /\ agentDone' = FALSE
  /\ agentThrew' = FALSE
  /\ writeThrew' = 0
  /\ escaped' = FALSE
  /\ wire' = <<>>
  /\ wireEnd' = FALSE
  /\ UNCHANGED impl

\* fetch resolves once the handler has begun the event stream
FetchStreams ==
  /\ cpc = "fetch"
  /\ spc \in {"stream", "done"}
  /\ headers = StreamHeaders
  /\ BeginRead
  /\ UNCHANGED <<messages, input, isLoading, parseCalls, lastParts, frames, base, exit, cuts>>
  /\ UNCHANGED <<svars, wvars>>

E2ENext ==
  \/ \E v \in Inputs : SetInput(v)
  \/ Send
  \/ HandlerEntry
  \/ \E ev \in AgentEvents : AgentYields(ev)
  \/ AgentCompletes
  \/ AgentThrows
  \/ FetchStreams
  \/ FetchRejects
  \/ Read
  \/ ReadDone
  \/ ReadRejects

(***************************************************************************)
(* The non-streaming fallback: the consumer of { response }. Its code is   *)
(* not among the sources; it is modelled from section 4.3 of the           *)
(* specification.                                                          *)
(***************************************************************************)
\* the blocks' texts joined in order, a block without text giving ''
RECURSIVE JoinBlocks(_)
JoinBlocks(bs) ==
  IF bs = <<>> THEN <<>>
  ELSE (IF Head(bs).hasText THEN Head(bs).text ELSE <<>>) \o JoinBlocks(Tail(bs))

\* a consumer that shows the first block only
NormalizeResponseFirstBlock(content) ==
  IF content.shape = "string" THEN content.text
  ELSE IF content.blocks = <<>> THEN <<>>
  ELSE Head(content.blocks).text

\* one display string of either shape of response
NormalizeResponse(content) ==
  IF content.shape = "string" THEN content.text ELSE JoinBlocks(content.blocks)

\* the consumer renders the final content of a 200 response
RenderResponse ==
  /\ spc = "done"
  /\ status = 200
  /\ jsonBody.kind = "response"
  /\ messages = <<>>
  /\ messages' = <<Msg("user", req.body.message.str),
                   Msg("assistant", NormalizeResponse(jsonBody.content))>>
  /\ UNCHANGED <<input, isLoading, cpc, buffer, decoder, rpos, parseCalls, lastParts,
                 frames, base, exit, cuts>>
  /\ UNCHANGED <<svars, wvars>>

FallbackNext ==
  \/ \E r \in Requests : Request(r)
  \/ HandlerEntry
  \/ \E c \in InvokeContents : AgentInvokeReturns(c)
  \/ AgentInvokeThrows
  \/ \E ev \in AgentEvents : AgentYields(ev)
  \/ AgentCompletes
  \/ AgentThrows
  \/ ClientDisconnects
  \/ RenderResponse

(***************************************************************************)
(* Specifications.                                                         *)
(***************************************************************************)
Init == ServerInit /\ WireInit /\ ClientInit

\* the handler under arbitrary requests
Next == ServerNext
Spec == Init /\ [][Next]_vars

\* the consumer under arbitrary bodies
InitClient == Init /\ impl = "stream"
SpecClient == InitClient /\ [][ClientNext]_vars

\* the awaits of sendMessage settle: fetch(...), res.json(), reader.read()
SettleFetch ==
  \/ \E fs \in FrameSeqs : FetchResolves(fs)
  \/ \E fs \in FrameSeqs, t \in TailFrames : FetchResolvesUnterminated(fs, t)
  \/ FetchRejects
  \/ FetchNoBody
  \/ FetchNotOk

SettleJson == (\E e \in ErrorBodies : JsonResolves(e)) \/ JsonRejects

SettleRead == ReadRejects \/ ReadDone \/ Read

\* the consumer under arbitrary bodies, every await settling in the end
SpecClientFair ==
  SpecClient /\ WF_vars(SettleFetch) /\ WF_vars(SettleJson) /\ WF_vars(SettleRead)

\* the client talking to the streaming handler
SpecE2E == InitClient /\ [][E2ENext]_vars

\* the handler and the consumer of its non-streaming answer
SpecFallback == Init /\ [][FallbackNext]_vars

(***************************************************************************)
(* Properties.                                                             *)
(***************************************************************************)
\* the text a text-delta event carries, nothing for any other event
DeltaText(ev) == IF IsTextDelta(ev) THEN ev.text ELSE <<>>

\* t1 + t2 + ... + tn of the events yielded
TextsOf(evs) == ConcatMap(DeltaText, evs, 1, Len(evs))

\* the text-delta events among evs that carry a non-empty text
NonEmptyDeltas(evs) == {i \in 1..Len(evs) : DeltaText(evs[i]) # <<>>}

\* C1: when the agent's event sequence completed normally and the client's
\* read loop has ended, the content of the last message is the concatenation
\* of the texts of the text-delta events, however the bytes were chunked
\* across the reads.
C1_Concatenation ==
  (exit = "done" /\ agentDone) =>
    /\ messages # <<>>
    /\ Last(messages).role = "assistant"
    /\ Last(messages).content = TextsOf(events)

\* C1 happens: two non-empty deltas were sent and read, with a read ending
\* inside a multi-byte character and another between the two newlines of a
\* delimiter
C1_Witness ==
  /\ exit = "done"
  /\ agentDone
  /\ Cardinality(NonEmptyDeltas(events)) >= 2
  /\ {"char", "delimiter"} \subseteq cuts
  /\ Last(messages).content = TextsOf(events)


\* the loop run once over the bytes w as a single chunk
OneChunk(w) == ReadCycle(<<>>, NewDecoder, base, w)

\* C2: the messages (and the buffer kept) after the bytes read so far came in
\* any number of chunks cut anywhere are those of the same bytes read as one
\* chunk; in particular the final content when the loop has ended.
C2_ChunkInvariance ==
  (cpc = "read" \/ exit = "done") =>
    \E one \in {OneChunk(SubSeq(wire, 1, rpos))} :
      /\ messages = one.msgs
      /\ buffer = one.buffer

\* C2 happens: a body that changed the content was read to its end in chunks
\* cut inside a JSON payload, between the two newlines of a delimiter,
\* right after a delimiter and inside a multi-byte character
C2_Witness ==
  /\ exit = "done"
  /\ cuts = {"payload", "delimiter", "boundary", "char"}
  /\ Last(messages).content # <<>>
  /\ messages = OneChunk(wire).msgs


\* w is one whole frame: 'data: ', a payload, and the blank line at its end
\* and nowhere else
IsFrame(w) ==
  /\ StartsWith(w, DataPrefix)
  /\ Len(Split(w, Delimiter)) = 2
  /\ Split(w, Delimiter)[2] = <<>>

\* the payload of a frame
Payload(w) == Slice(Split(w, Delimiter)[1], Len(DataPrefix))

\* the text property a frame's payload carries, undefined if it has none
FrameText(w) ==
  IF JSONParse(Payload(w)).kind = "object"
    THEN Property(JSONParse(Payload(w)).members, KeyText, Len(JSONParse(Payload(w)).members))
    ELSE Undefined

IsTextFrame(w) == IsFrame(w) /\ FrameText(w).kind = "string"

\* the texts of the text frames written, in the order of the writes
WrittenTexts ==
  [i \in 1..Len(SelectSeq(writes, IsTextFrame)) |->
     FrameText(SelectSeq(writes, IsTextFrame)[i]).str]

\* the texts of the text-delta events yielded, in the order of the events
YieldedTexts ==
  [i \in 1..Len(SelectSeq(events, IsTextDelta)) |-> SelectSeq(events, IsTextDelta)[i].text]

\* C3: the i-th text frame written carries the text of the i-th text-delta
\* event (only the frame of the newest event may be missing, when its write
\* failed), and every res.write call sends exactly one whole frame, its
\* blank line included.
C3_OrderedWholeFrames ==
  /\ \A i \in 1..Len(writes) : IsFrame(writes[i])
  /\ Len(WrittenTexts) <= Len(YieldedTexts)
  /\ WrittenTexts = SubSeq(YieldedTexts, 1, Len(WrittenTexts))
  /\ writeThrew = 0 => WrittenTexts = YieldedTexts
  /\ Len(WrittenTexts) >= Len(YieldedTexts) - 1

\* C3 happens: two text deltas with different texts, one of them holding a
\* quote and two newlines, were written and the response was ended
C3_Witness ==
  /\ spc = "done"
  /\ ended
  /\ Len(WrittenTexts) = 2
  /\ WrittenTexts[1] # WrittenTexts[2]
  /\ \E i \in 1..2 : WrittenTexts[i] = <<12354, 34, 10, 10>>
  /\ WrittenTexts = YieldedTexts


\* how many of the writes are the frame f
CountFrames(f) == Cardinality({i \in 1..Len(writes) : writes[i] = f})

\* the handler has left the streaming mode of a request
StreamingOver == spc = "done" /\ headers = StreamHeaders

\* exactly one [DONE] frame, the last write, and the response closed right
\* after it
DoneThenClosed ==
  /\ CountFrames(DoneFrame) = 1
  /\ Last(writes) = DoneFrame
  /\ ended
  /\ closedLen = Len(writes)

C5_ClosedOnEveryExit ==
  StreamingOver =>
    /\ ended
    /\ agentCalls.stream = 1
    /\ (agentThrew \/ writeThrew > 0) =>
         /\ CountFrames(ErrorFrame) = 1
         /\ Last(writes) = ErrorFrame

\* C6 as stated: a POST whose message is absent (no body at all included)
\* or is no string is answered 400 'message is required', and no agent call
\* is made.
C6_MessageRequired ==
  (req.method = "POST" /\ (~req.body.present \/ MessageMissing(req.body.message))) =>
    /\ agentCalls = [invoke |-> 0, stream |-> 0]
    /\ spc = "done" =>
         /\ status = 400
         /\ jsonBody = ErrorJson(MessageRequiredText)

\* C7: a request whose method is not POST is answered 405 'Method not
\* allowed' whatever its body; its body is never read and no agent call is
\* made.
C7_MethodNotAllowed ==
  req.method \notin {"POST", "none"} =>
    /\ ~bodyRead
    /\ agentCalls = [invoke |-> 0, stream |-> 0]
    /\ spc = "done" =>
         /\ status = 405
         /\ jsonBody = ErrorJson(MethodNotAllowedText)
         /\ ended

\* C7 happens: a GET that carries a body a POST would have streamed
C7_Witness ==
  /\ spc = "done"
  /\ req = [method |-> "GET", body |-> Body(JString(Hello), JTrue)]
  /\ status = 405
  /\ jsonBody = ErrorJson(MethodNotAllowedText)
  /\ ~bodyRead


\* the frames of fs that are not of the kind k
RECURSIVE Without(_, _)
Without(fs, k) ==
  IF fs = <<>> THEN <<>>
  ELSE IF Head(fs).kind = k THEN Without(Tail(fs), k)
  ELSE <<Head(fs)>> \o Without(Tail(fs), k)

\* the messages after the body made of the frames fs was read as one chunk
MessagesOf(fs) == OneChunk(UTF8Encode(BodyText(fs))).msgs

\* C8 as stated: once an error frame {"error": X} was processed, the last
\* message is the assistant's and its content is the error prefix followed
\* by X, nothing of the earlier content remaining (checked where the error
\* frame is the last frame of the body).
C8_ErrorFrameReplaces ==
  (exit = "done" /\ frames # <<>> /\ Last(frames).kind = "error") =>
    /\ Last(messages) = Msg("assistant", ErrorPrefix \o Last(frames).arg)
    /\ Front(messages) = Front(base)

\* C9: a frame whose payload is not valid JSON changes no message, lets no
\* exception leave the loop body and does not end the loop: when the loop has
\* ended the messages are those of the same body without its malformed
\* frames.
C9_MalformedDropped ==
  /\ exit # "threw"
  /\ exit = "done" => messages = MessagesOf(Without(frames, "malformed"))

\* C9 happens: a malformed frame came first, split from a text frame by a
\* read that ended inside it, and the text frame after it was applied
C9_Witness ==
  /\ exit = "done"
  /\ Len(frames) = 2
  /\ frames[1].kind = "malformed"
  /\ frames[2].kind = "text"
  /\ "payload" \in cuts
  /\ Last(messages).content = frames[2].arg
  /\ Cardinality(parseCalls) = 2

\* C10: the payload [DONE] is never given to JSON.parse, and when the loop
\* has ended the messages are those of the same body without its [DONE]
\* frames, wherever they stood in it.
C10_DoneIgnored ==
  /\ DoneLiteral \notin parseCalls
  /\ exit = "done" => messages = MessagesOf(Without(frames, "done"))

\* C10 happens: [DONE] came before a text frame, both in the same chunk, and
\* the text frame was applied
C10_Witness ==
  /\ exit = "done"
  /\ Len(frames) = 2
  /\ frames[1].kind = "done"
  /\ frames[2].kind = "text"
  /\ Len(lastParts) = 2
  /\ lastParts[1] = DataPrefix \o DoneLiteral
  /\ Last(messages).content = frames[2].arg
  /\ Cardinality(parseCalls) = 1


\* the text a block contributes to the display string
BlockText(b) == IF b.hasText THEN b.text ELSE <<>>

\* the handler answered 200 and the consumer has rendered the answer
Rendered == spc = "done" /\ status = 200 /\ messages # <<>>

\* C11: the display string of a non-streaming answer is the response itself
\* when it is a plain string, and the in-order concatenation of the blocks'
\* texts when it is a sequence of content blocks, a block without text
\* giving the empty string: [{text:'a'},{},{text:'b'}] displays 'ab'.
C11_Normalization ==
  Rendered =>
    /\ jsonBody.content.shape = "string" =>
         Last(messages).content = jsonBody.content.text
    /\ jsonBody.content.shape = "blocks" =>
         Last(messages).content =
           ConcatMap(BlockText, jsonBody.content.blocks, 1, Len(jsonBody.content.blocks))
    /\ jsonBody.content = BlocksContent(<<TextBlock(<<97>>), OtherBlock, TextBlock(<<98>>)>>) =>
         Last(messages).content = <<97, 98>>

\* C11 happens: [{text:'a'},{},{text:'b'}] was answered and displays 'ab'
C11_Witness ==
  /\ Rendered
  /\ jsonBody.content = BlocksContent(<<TextBlock(<<97>>), OtherBlock, TextBlock(<<98>>)>>)
  /\ Last(messages) = Msg("assistant", <<97, 98>>)


\* C12 as stated: no exception raised inside the handler (reading the
\* request body, the agent call, a response write) leaves it; each becomes a
\* status or an error frame.
C12_NothingEscapes ==
  /\ ~escaped
  /\ spc = "done" => ended


C14_ReadFailure ==
  exit = "rejected" =>
    /\ Last(messages) = Msg("assistant", ConnectionError)
    /\ Front(messages) = Front(base)
    /\ cpc = "idle"
    /\ ~isLoading

\* C14 happens: the first of two text frames was applied, then a read threw
\* and the second frame never reached JSON.parse
C14_Witness ==
  /\ exit = "rejected"
  /\ Len(frames) = 2
  /\ frames[1].kind = "text"
  /\ frames[2].kind = "text"
  /\ frames[1] # frames[2]
  /\ Cardinality(parseCalls) = 1
  /\ Last(messages) = Msg("assistant", ConnectionError)


\* the events among evs that are content-block deltas of kind text
TextDeltasOf(evs) ==
  {i \in 1..Len(evs) : evs[i].type = "modelContentBlockDeltaEvent" /\ evs[i].delta = "textDelta"}

HasError(data) ==
  /\ JSONParse(data).kind = "object"
  /\ Truthy(Property(JSONParse(data).members, KeyError, Len(JSONParse(data).members)))

\* s is the beginning of t
IsPrefix(s, t) == Len(s) <= Len(t) /\ SubSeq(t, 1, Len(s)) = s

\* C16: every step taken while the stream is consumed (a read with the
\* frames it completes, a read that throws, the end of the stream) leaves the
\* number of messages and every message but the last unchanged; and while no
\* error frame has been applied and no read has thrown, the new content of
\* the last message begins with the old one.
C16_FrameEffect ==
  [][cpc = "read" =>
       /\ Len(messages') = Len(messages)
       /\ Front(messages') = Front(messages)
       /\ (exit' \in {"none", "done"} /\ \A d \in parseCalls' : ~HasError(d)) =>
            /\ Last(messages').role = Last(messages).role
            /\ IsPrefix(Last(messages).content, Last(messages').content)]_vars

\* C16 happens: two text deltas were applied by two different reads, the
\* content growing from '' to 'Hi' to 'Hi あ'
C16_Witness ==
  /\ exit = "done"
  /\ frames = <<Frame("text", <<72, 105>>), Frame("text", <<32, 12354>>)>>
  /\ Len(lastParts) = 1
  /\ Len(messages) = 2
  /\ messages[1].role = "user"
  /\ Last(messages) = Msg("assistant", <<72, 105, 32, 12354>>)


\* C17 as stated (lock-on-error): once an error frame has been applied, the
\* text-delta frames that follow it in the same stream change nothing: when
\* the stream has ended the content is the error prefix followed by the
\* error of that frame.
C17_LockOnError ==
  \A i \in 1..Len(frames) :
    (/\ exit = "done"
     /\ frames[i].kind = "error"
     /\ frames[i].arg # <<>>
     /\ i < Len(frames)
     /\ \A j \in (i + 1)..Len(frames) : frames[j].kind = "text") =>
      Last(messages).content = ErrorPrefix \o frames[i].arg


\* C18: a call of sendMessage that passed the guard sets isLoading back to
\* false whichever way it is left (response not OK, stream finished, fetch or
\* read rejected, exception in the loop), given that its awaits settle; a
\* call that has ended never leaves isLoading set.
C18_LoadingEnds ==
  /\ [](exit # "none" => ~isLoading /\ cpc = "idle")
  /\ (isLoading ~> (~isLoading /\ exit \in {"done", "notok", "rejected", "threw"}))

\* C18 happens: a call answered by a response that is not OK has ended and
\* the input is enabled again
C18_Witness ==
  /\ exit = "notok"
  /\ ~isLoading
  /\ cpc = "idle"
  /\ Len(messages) = 2
  /\ StartsWith(Last(messages).content, ErrorPrefix)


\* the payload of the frame f: what follows 'data: '
PayloadOf(f) == Slice(FrameString(f), Len(DataPrefix))

\* C19: when the stream is done, what is left in the buffer (a last frame
\* that no blank line followed) is dropped: it was handed to JSON.parse at no
\* time, and the messages are those of the frames that a delimiter followed.
C19_TailDiscarded ==
  /\ \A d \in parseCalls : \E i \in 1..Len(frames) : d = PayloadOf(frames[i])
  /\ (exit = "done" /\ buffer # <<>>) => messages = MessagesOf(frames)

\* C19 happens: the stream ended with a text frame and an unterminated text
\* frame read; the first alone is in the message
C19_Witness ==
  /\ exit = "done"
  /\ frames = <<Frame("text", <<72, 105>>)>>
  /\ buffer = FrameString(Frame("text", <<33>>))
  /\ parseCalls = {PayloadOf(Frame("text", <<72, 105>>))}
  /\ Last(messages) = Msg("assistant", <<72, 105>>)


\* the text decoded from the first p bytes of the body w
DecodedTo(w, p) == DecodeStream(NewDecoder, SubSeq(w, 1, p)).out

\* the newlines of s that end right before position p, counted back to the
\* nearest character that is no newline
RunBefore(s, p) ==
  (p - 1) - (CHOOSE q \in 0..(p - 1) :
               /\ q = 0 \/ s[q] # 10
               /\ \A k \in (q + 1)..(p - 1) : s[k] = 10)

\* the positions of s where a delimiter begins, delimiters being taken from
\* left to right and sharing no newline (of three newlines in a row the first
\* two are the delimiter)
DelimitersOf(s) ==
  {p \in 1..(Len(s) - 1) : s[p] = 10 /\ s[p + 1] = 10 /\ RunBefore(s, p) % 2 = 0}

\* the text of s after its last delimiter
AfterLast(s, ds) ==
  IF ds = {} THEN s
  ELSE SubSeq(s, (CHOOSE p \in ds : \A q \in ds : q <= p) + 2, Len(s))

\* the k-th delimiter of s and the frame that it ends
NthDelimiter(ds, k) == CHOOSE p \in ds : Cardinality({q \in ds : q <= p}) = k

FrameBefore(s, ds, k) ==
  SubSeq(s, IF k = 1 THEN 1 ELSE NthDelimiter(ds, k - 1) + 2, NthDelimiter(ds, k) - 1)

FramesIn(s, ds) == [k \in 1..Cardinality(ds) |-> FrameBefore(s, ds, k)]

\* what a pass of the loop must leave: no delimiter in the buffer, and the
\* buffer the text after the last delimiter of t
BufferIs(buf, t) ==
  /\ \A p \in 1..(Len(buf) - 1) : ~(buf[p] = 10 /\ buf[p + 1] = 10)
  /\ buf = AfterLast(t, DelimitersOf(t))

\* C20: after every pass of the loop the buffer holds no delimiter and is
\* the text decoded so far from its last delimiter on, and the frames the
\* pass processed are, in order, those that the text decoded so far holds
\* beyond the frames of the text decoded before the pass: each frame once.
C20_BufferInvariant ==
  /\ [](cpc = "read" => BufferIs(buffer, DecodedTo(wire, rpos)))
  /\ [][(cpc = "read" /\ cpc' = "read") =>
          \E t \in {DecodedTo(wire, rpos)}, u \in {DecodedTo(wire', rpos')} :
            FramesIn(u, DelimitersOf(u)) = FramesIn(t, DelimitersOf(t)) \o lastParts']_vars

\* C20 happens: a read ended inside the second of two text frames; the first
\* was processed and the buffer holds the beginning of the second
C20_Witness ==
  /\ cpc = "read"
  /\ frames = <<Frame("text", <<32, 12354>>), Frame("text", <<72, 105>>)>>
  /\ lastParts = <<FrameString(Frame("text", <<32, 12354>>))>>
  /\ buffer # <<>>
  /\ Len(buffer) < Len(FrameString(Frame("text", <<72, 105>>)))
  /\ IsPrefix(buffer, FrameString(Frame("text", <<72, 105>>)))

====
